---------------------------- MODULE Spec2Model ----------------------------
(***************************************************************************)
(* RangeManager (src/src/index.ts): a query-and-mutation engine over a     *)
(* header-addressed sheet.  The sheet is the Apps Script Sheet the class   *)
(* is bound to; the manager's own state is `ranges` and `whereOptions`.    *)
(*                                                                         *)
(* Cell values are JavaScript scalars.  A value is a record [t, n, s]:     *)
(*   t = "num"   the number n                                              *)
(*   t = "str"   the string s                                              *)
(*   t = "bool"  false (n = 0) or true (n = 1)                             *)
(*   t = "undef" undefined                                                 *)
(*   t = "nan"   the number NaN (only produced by ToNumber)                *)
(*   t = "regex" a RegExp whose source is s                                *)
(***************************************************************************)
EXTENDS Integers, Sequences, FiniteSets, TLC

VARIABLES sheet, configs, ranges, whereOptions, call, ret, calls

vars == <<sheet, configs, ranges, whereOptions, call, ret, calls>>

(***************************************************************************)
(* Bounds of the model.                                                    *)
(***************************************************************************)
\* No append/prepend is tried once the sheet has this many populated rows.
MaxRows == 5
\* Number of public calls made on one manager.
MaxCalls == 4

(***************************************************************************)
(* JavaScript values and the coercions the code relies on.                 *)
(***************************************************************************)
Num(n) == [t |-> "num", n |-> n, s |-> ""]
Str(s) == [t |-> "str", n |-> 0, s |-> s]
Bool(b) == [t |-> "bool", n |-> IF b THEN 1 ELSE 0, s |-> ""]
Undef == [t |-> "undef", n |-> 0, s |-> ""]
NaN == [t |-> "nan", n |-> 0, s |-> ""]
RegExp(src) == [t |-> "regex", n |-> 0, s |-> src]

\* The empty string: what getValues() returns for an empty cell and what
\* serializeRow writes as its last fallback.
Blank == Str("")

\* ToBoolean, as `||` applies it.
Truthy(v) ==
    CASE v.t = "num" -> v.n # 0
      [] v.t = "str" -> v.s # ""
      [] v.t = "bool" -> v.n = 1
      [] v.t = "regex" -> TRUE
      [] OTHER -> FALSE

\* a || b
Or(a, b) == IF Truthy(a) THEN a ELSE b

\* The strings of the model that StringToNumber reads as a number; every
\* other string of the model converts to NaN.
NumericStrings ==
    << <<"", 0>>, <<"0", 0>>, <<"23", 23>>, <<"28", 28>>, <<"30", 30>>, <<"35", 35>> >>

\* Number::toString on the numbers of the model.
NumToStr(n) ==
    IF \E i \in 1..Len(NumericStrings) :
         NumericStrings[i][2] = n /\ NumericStrings[i][1] # ""
    THEN LET i == CHOOSE i \in 1..Len(NumericStrings) :
                    NumericStrings[i][2] = n /\ NumericStrings[i][1] # ""
         IN NumericStrings[i][1]
    ELSE "#"

\* ToNumber
ToNumber(v) ==
    CASE v.t = "num" -> v
      [] v.t = "bool" -> Num(v.n)
      [] v.t = "str" ->
           IF \E i \in 1..Len(NumericStrings) : NumericStrings[i][1] = v.s
           THEN Num(NumericStrings[CHOOSE i \in 1..Len(NumericStrings) :
                                     NumericStrings[i][1] = v.s][2])
           ELSE NaN
      [] OTHER -> NaN

\* ToString, as RegExp.prototype.exec and property lookup apply it.
ToStr(v) ==
    CASE v.t = "str" -> v.s
      [] v.t = "num" -> NumToStr(v.n)
      [] v.t = "bool" -> IF v.n = 1 THEN "true" ELSE "false"
      [] v.t = "undef" -> "undefined"
      [] v.t = "nan" -> "NaN"
      [] OTHER -> v.s

\* The strings of the model in code-unit order (digits < upper case < lower
\* case), for the relational operators on two strings.
StrOrder ==
    << "", "0", "23", "28", "30", "35", "Alice", "Bob", "Charlie", "Zed", "Zoe",
       "age", "false", "is_active", "name", "nope", "true" >>

StrRank(s) ==
    IF \E i \in 1..Len(StrOrder) : StrOrder[i] = s
    THEN CHOOSE i \in 1..Len(StrOrder) : StrOrder[i] = s
    ELSE 0

\* a === b
StrictEq(a, b) == a.t # "nan" /\ a = b

\* a == b (abstract equality) on the scalars of the model.
LooseEq(a, b) ==
    CASE a.t = b.t -> StrictEq(a, b)
      [] a.t = "undef" \/ b.t = "undef" -> FALSE
      [] a.t = "regex" \/ b.t = "regex" -> FALSE
      [] OTHER -> LET x == ToNumber(a)
                      y == ToNumber(b)
                  IN x.t = "num" /\ y.t = "num" /\ x.n = y.n

\* a < b (abstract relational comparison); undefined/NaN compare false.
LessThan(a, b) ==
    IF a.t = "str" /\ b.t = "str"
    THEN StrRank(a.s) < StrRank(b.s)
    ELSE LET x == ToNumber(a)
             y == ToNumber(b)
         IN x.t = "num" /\ y.t = "num" /\ x.n < y.n

\* a <= b is !(b < a) unless either side is NaN/undefined.
LessEq(a, b) ==
    IF a.t = "str" /\ b.t = "str"
    THEN StrRank(a.s) <= StrRank(b.s)
    ELSE LET x == ToNumber(a)
             y == ToNumber(b)
         IN x.t = "num" /\ y.t = "num" /\ x.n <= y.n

\* The strings a RegExp of the model matches, among the strings of the model.
RegExpLanguage(src) ==
    CASE src = "^B" -> {"Bob"}
      [] src = "^3" -> {"30", "35"}
      [] src = "e$" -> {"Alice", "Charlie", "Zoe", "age", "false", "is_active",
                        "name", "nope", "true"}
      [] OTHER -> {}

\* regex.exec(value) !== null
RegExpExec(re, v) == ToStr(v) \in RegExpLanguage(re.s)

Range(f) == {f[i] : i \in DOMAIN f}


Max(S) == CHOOSE x \in S : \A y \in S : y <= x
Min(S) == CHOOSE x \in S : \A y \in S : x <= y

\* seq[i] of a JavaScript array: undefined outside the array.
At(seq, i) == IF i \in DOMAIN seq THEN seq[i] ELSE Undef

\* data[key] of a JavaScript object: undefined for a missing key.
Lookup(data, key) == IF key \in DOMAIN data THEN data[key] ELSE Undef

\* The object {}.
EmptyObject == [k \in {} |-> Undef]

(***************************************************************************)
(* The Sheet the manager is bound to.  A sheet is the sequence of its rows *)
(* down to the last row with content; every row has the grid's width and   *)
(* every cell outside the sequence is empty.                               *)
(***************************************************************************)
Width(sh) == IF sh = <<>> THEN 0 ELSE Len(sh[1])

BlankRow(w) == [c \in 1..w |-> Blank]

\* Rows below the last row with content are not part of the sequence.
RECURSIVE Trim(_)
Trim(sh) ==
    IF sh = <<>> THEN sh
    ELSE IF sh[Len(sh)] = BlankRow(Len(sh[Len(sh)]))
         THEN Trim(SubSeq(sh, 1, Len(sh) - 1))
         ELSE sh

\* Sheet.getLastRow(): the position of the last row that has content.
getLastRow(sh) ==
    Max({0} \cup {r \in 1..Len(sh) : \E c \in 1..Len(sh[r]) : sh[r][c] # Blank})

\* Sheet.getLastColumn(): the position of the last column that has content.
getLastColumn(sh) ==
    Max({0} \cup {c \in 1..Width(sh) : \E r \in 1..Len(sh) : sh[r][c] # Blank})

\* Sheet.getRange(row, column).getValue()
getValue(sh, row, column) ==
    IF row \in 1..Len(sh) /\ column \in 1..Len(sh[row]) THEN sh[row][column] ELSE Blank

\* Sheet.getRange(row, column, numRows, numColumns).getValues()
getValues(sh, row, column, numRows, numColumns) ==
    [i \in 1..numRows |-> [j \in 1..numColumns |-> getValue(sh, row + i - 1, column + j - 1)]]

\* Sheet.getRange(row, column, Len(values), Len(values[1])).setValues(values)
setValues(sh, row, column, values) ==
    LET height == Max({Len(sh), row + Len(values) - 1})
        inside(r, c) == /\ r \in row..(row + Len(values) - 1)
                        /\ c \in column..(column + Len(values[1]) - 1)
    IN Trim([r \in 1..height |->
               [c \in 1..Width(sh) |->
                  IF inside(r, c) THEN values[r - row + 1][c - column + 1]
                  ELSE getValue(sh, r, c)]])

\* Sheet.getRange(row, column, numRows, numColumns).clearContent()
clearContent(sh, row, column, numRows, numColumns) ==
    setValues(sh, row, column, [i \in 1..numRows |-> BlankRow(numColumns)])

\* Sheet.deleteRow(row): the rows below move up by one.
deleteRow(sh, row) ==
    IF row \in 1..Len(sh)
    THEN Trim([i \in 1..(Len(sh) - 1) |-> IF i < row THEN sh[i] ELSE sh[i + 1]])
    ELSE sh

(***************************************************************************)
(* RangeNotation and the manager's configuration.                          *)
(***************************************************************************)
\* new RangeNotation({row, numColumns}): a missing or zero option becomes 1.
RangeNotation(row, numColumns) ==
    << IF row = 0 THEN 1 ELSE row, 1, 1, IF numColumns = 0 THEN 1 ELSE numColumns >>

\* RangeNotation.row
RowOf(notation) == notation[1]

\* this.configs as the constructor sets it.
NewConfigs(sh) ==
    [headerRowNumber |-> 1, firstRowNumber |-> 2, firstColumnNumber |-> 1,
     lastColumnNumber |-> getLastColumn(sh), offset |-> 1]

\* get headers(): position -> header cell, read from the sheet on every use.
headers(sh, cfg) ==
    getValues(sh, cfg.headerRowNumber, cfg.firstColumnNumber, cfg.offset,
              cfg.lastColumnNumber)[1]

(***************************************************************************)
(* serializeRow / deserializeRow                                           *)
(***************************************************************************)
\* data[header] || currentValues[index - 1] || ''
serializeRow(hdrs, data, currentValues) ==
    [i \in 1..Len(hdrs) |->
       Or(Or(Lookup(data, ToStr(hdrs[i])), At(currentValues, i)), Blank)]

\* colNames.filter(colName => Object.values(headers).includes(colName) === false)
invalidColNames(hdrs, colNames) ==
    SelectSeq(colNames, LAMBDA colName : colName \notin Range(hdrs))

\* deserializeRow: [threw, invalidCols, value].  The reduce visits the
\* headers in position order and assigns total[colName] at each one it
\* keeps, so a later position overwrites an earlier one of the same name.
deserializeRow(hdrs, data, currentValues, colNames) ==
    LET invalidCols == invalidColNames(hdrs, colNames)
        names == IF Len(colNames) = 0 THEN hdrs ELSE colNames
        kept == {i \in 1..Len(hdrs) : hdrs[i] \in Range(names)}
        keys == {ToStr(hdrs[i]) : i \in kept}
        last(k) == Max({i \in kept : ToStr(hdrs[i]) = k})
    IN IF Len(invalidCols) > 0
       THEN [threw |-> TRUE, invalidCols |-> invalidCols, value |-> EmptyObject]
       ELSE [threw |-> FALSE, invalidCols |-> <<>>,
             value |-> [k \in keys |-> Or(Lookup(data, k), At(currentValues, last(k)))]]

(***************************************************************************)
(* where(): the operator catalog, clause compilation and the row scan.     *)
(*                                                                         *)
(* A where-clause (an object) is the sequence of its entries in key order: *)
(*   [colName, isObject, value, methods]                                   *)
(* where `value` is the scalar criterion (isObject = FALSE) and `methods`  *)
(* the entries of the operator map (isObject = TRUE), each                 *)
(* [name, value], the operand `value` being [v, arr]: a scalar or RegExp   *)
(* v, or an array arr of them.                                             *)
(***************************************************************************)
Scalar(v) == [v |-> v, arr |-> <<>>]
Array(arr) == [v |-> Undef, arr |-> arr]

\* The keys of `methods` in where().
MethodNames ==
    {"equal", "deepEqual", "gt", "gte", "lt", "lte", "includes", "excludes",
     "between", "match", "matchAny"}

\* The first element of the array taken as its minimum.
MathMinFirst(arr) == ToNumber(arr[1]).n

\* Math.min(...expected) / Math.max(...expected) on an array of numbers.
MathMin(arr) == Min({ToNumber(arr[i]).n : i \in DOMAIN arr})
MathMax(arr) == Max({ToNumber(arr[i]).n : i \in DOMAIN arr})

\* expected.includes(value): SameValueZero.
ArrayIncludes(arr, value) == \E i \in DOMAIN arr : arr[i] = value

\* methods[name](value, expected)
methods(name, value, expected) ==
    CASE name = "equal" -> LooseEq(value, expected.v)
      [] name = "deepEqual" -> StrictEq(value, expected.v)
      [] name = "gt" -> LessThan(expected.v, value)
      [] name = "gte" -> LessEq(expected.v, value)
      [] name = "lt" -> LessThan(value, expected.v)
      [] name = "lte" -> LessEq(value, expected.v)
      [] name = "includes" -> ArrayIncludes(expected.arr, value)
      [] name = "excludes" -> ArrayIncludes(expected.arr, value) = FALSE
      [] name = "between" ->
           /\ LessEq(Num(MathMin(expected.arr)), value)
           /\ LessEq(value, Num(MathMax(expected.arr)))
      [] name = "match" -> RegExpExec(expected.v, value)
      [] name = "matchAny" ->
           \E i \in DOMAIN expected.arr : RegExpExec(expected.arr[i], value)

\* Object.keys(options)
colNamesOf(options) == [i \in 1..Len(options) |-> Str(options[i].colName)]

\* isLiteralObject(options[colName])
isLiteralObject(entry) == entry.isObject

\* The first header position named colName.
colIdOf(hdrs, colName) == Min({i \in 1..Len(hdrs) : hdrs[i] = Str(colName)})

\* One element of `cols`: {colId, methods}; a scalar criterion is the
\* single method {name: 'equal', value}.
compileCol(hdrs, entry) ==
    [colId |-> colIdOf(hdrs, entry.colName),
     methods |-> IF isLiteralObject(entry)
                 THEN entry.methods
                 ELSE << [name |-> "equal", value |-> Scalar(entry.value)] >>]

\* every() replaced by a test of the first method only.
everyMethodFirstOnly(value, ms) ==
    IF ms = <<>> THEN "T"
    ELSE IF Head(ms).name \notin MethodNames THEN "X"
    ELSE IF methods(Head(ms).name, value, Head(ms).value) THEN "T" ELSE "F"

\* column.methods.every(method => methods[method.name](value, method.value)):
\* "T", "F", or "X" when it reaches a name that is no key of `methods`
\* (calling undefined throws a TypeError).  every() stops at the first false.
RECURSIVE everyMethod(_, _)
everyMethod(value, ms) ==
    IF ms = <<>> THEN "T"
    ELSE IF Head(ms).name \notin MethodNames THEN "X"
    ELSE IF methods(Head(ms).name, value, Head(ms).value)
         THEN everyMethod(value, Tail(ms))
         ELSE "F"

\* rows.filter(row => ...) for one column: [threw, rows].
filterRows(sh, rows, column) ==
    LET verdict(row) == everyMethod(getValue(sh, row, column.colId), column.methods)
    IN [threw |-> \E i \in DOMAIN rows : verdict(rows[i]) = "X",
        rows |-> SelectSeq(rows, LAMBDA row : verdict(row) = "T")]

\* Candidate rows counted from the header row.
candidateRowsFromHeader(sh, cfg) ==
    [i \in 1..getLastRow(sh) |-> (i - 1) + cfg.headerRowNumber]

\* Array.from({length: getLastRow()}, (_, index) => index + firstRowNumber)
candidateRows(sh, cfg) ==
    [i \in 1..getLastRow(sh) |-> (i - 1) + cfg.firstRowNumber]

\* cols.reduce(..., candidateRows): [threw, rows].
RECURSIVE scan(_, _, _)
scan(sh, cols, acc) ==
    IF cols = <<>> \/ acc.threw THEN acc
    ELSE scan(sh, Tail(cols), filterRows(sh, acc.rows, Head(cols)))

\* where(options) up to the assignment of this.ranges:
\* [error, invalidCols, ranges]; error is "" when the call returns.
whereResult(sh, cfg, options) ==
    LET hdrs == headers(sh, cfg)
        invalidCols == invalidColNames(hdrs, colNamesOf(options))
        cols == [i \in 1..Len(options) |-> compileCol(hdrs, options[i])]
        found == scan(sh, cols, [threw |-> FALSE, rows |-> candidateRows(sh, cfg)])
    IN IF Len(invalidCols) > 0
       THEN [error |-> "InvalidCol", invalidCols |-> invalidCols, ranges |-> <<>>]
       ELSE IF found.threw
       THEN [error |-> "TypeError", invalidCols |-> <<>>, ranges |-> <<>>]
       ELSE [error |-> "", invalidCols |-> <<>>,
             ranges |-> [i \in 1..Len(found.rows) |->
                           RangeNotation(found.rows[i], getLastColumn(sh))]]

(***************************************************************************)
(* The effect of each mutation on the sheet.                               *)
(***************************************************************************)
\* update(): for each notation of this.ranges, in order, read the row,
\* deserialize, serialize with no current values, write it back.
RECURSIVE updateSheet(_, _, _, _)
updateSheet(sh, cfg, rngs, data) ==
    IF rngs = <<>> THEN sh
    ELSE LET notation == Head(rngs)
             values == getValues(sh, notation[1], notation[2], notation[3], notation[4])[1]
             deserialized == deserializeRow(headers(sh, cfg), data, values, <<>>).value
             serialized == serializeRow(headers(sh, cfg), deserialized, <<>>)
         IN updateSheet(setValues(sh, notation[1], notation[2], <<serialized>>),
                        cfg, Tail(rngs), data)

\* deleteRows() without the compensation for the rows already deleted.
RECURSIVE deleteRowsUncompensated(_, _, _)
deleteRowsUncompensated(sh, rngs, index) ==
    IF rngs = <<>> THEN sh
    ELSE deleteRowsUncompensated(deleteRow(sh, RowOf(Head(rngs))), Tail(rngs), index + 1)

\* deleteRows() compensating by one row too many.
RECURSIVE deleteRowsOvercompensated(_, _, _)
deleteRowsOvercompensated(sh, rngs, index) ==
    IF rngs = <<>> THEN sh
    ELSE deleteRowsOvercompensated(deleteRow(sh, RowOf(Head(rngs)) - index - 1),
                                   Tail(rngs), index + 1)

\* deleteRows(): forEach((row, index) => deleteRow(row - index)).
RECURSIVE deleteRowsFrom(_, _, _)
deleteRowsFrom(sh, rngs, index) ==
    IF rngs = <<>> THEN sh
    ELSE deleteRowsFrom(deleteRow(sh, RowOf(Head(rngs)) - index), Tail(rngs), index + 1)

\* append(): write serializeRow(headers, data) at getLastRow() + 1.
appendSheet(sh, cfg, data) ==
    setValues(sh, getLastRow(sh) + 1, 1, << serializeRow(headers(sh, cfg), data, <<>>) >>)

\* prepend(): [error, sheet].  getRange(2, 1, 0, n) throws when the sheet
\* holds only the header row.
prependResult(sh, cfg, data) ==
    LET currentNumRows == getLastRow(sh)
        numColumns == getLastColumn(sh)
        currentData == getValues(sh, 2, 1, currentNumRows - 1, numColumns)
        newValues == serializeRow(headers(sh, cfg), data, <<>>)
        cleared == clearContent(sh, cfg.firstRowNumber, cfg.firstColumnNumber, 1, numColumns)
    IN IF numColumns = 0 \/ currentNumRows = 0
       THEN [error |-> "", sheet |-> sh]
       ELSE IF currentNumRows - 1 < 1
       THEN [error |-> "RangeError", sheet |-> sh]
       ELSE [error |-> "",
             sheet |-> setValues(cleared, cfg.firstRowNumber, cfg.firstColumnNumber,
                                 <<newValues>> \o currentData)]

\* fetch() validating colNames before it looks at this.ranges.
fetchResultValidatingFirst(sh, cfg, rngs, colNames) ==
    LET rowValues(i) == getValues(sh, rngs[i][1], rngs[i][2], rngs[i][3], rngs[i][4])[1]
        one(i) == deserializeRow(headers(sh, cfg), EmptyObject, rowValues(i), colNames)
        invalidCols == invalidColNames(headers(sh, cfg), colNames)
    IN IF Len(invalidCols) > 0
       THEN [error |-> "InvalidCol", invalidCols |-> invalidCols, value |-> <<>>]
       ELSE [error |-> "", invalidCols |-> <<>>,
             value |-> [i \in DOMAIN rngs |-> one(i).value]]

\* fetch(colNames): [error, invalidCols, value]; the first deserializeRow
\* that throws ends the call.
fetchResult(sh, cfg, rngs, colNames) ==
    LET rowValues(i) == getValues(sh, rngs[i][1], rngs[i][2], rngs[i][3], rngs[i][4])[1]
        one(i) == deserializeRow(headers(sh, cfg), EmptyObject, rowValues(i), colNames)
    IN IF \E i \in DOMAIN rngs : one(i).threw
       THEN [error |-> "InvalidCol", invalidCols |-> one(1).invalidCols, value |-> <<>>]
       ELSE [error |-> "", invalidCols |-> <<>>,
             value |-> [i \in DOMAIN rngs |-> one(i).value]]

(***************************************************************************)
(* Inputs of the calls.                                                    *)
(***************************************************************************)
Criterion(colName, value) ==
    [colName |-> colName, isObject |-> FALSE, value |-> value, methods |-> <<>>]
OperatorMap(colName, ms) ==
    [colName |-> colName, isObject |-> TRUE, value |-> Undef, methods |-> ms]
Method(name, operand) == [name |-> name, value |-> operand]

\* this.whereOptions: null, or the options object of the last where().
Null == [set |-> FALSE, options |-> <<>>]
Options(options) == [set |-> TRUE, options |-> options]

\* The sheets a manager is constructed on.
People ==
    << <<Str("name"), Str("age"), Str("is_active")>>,
       <<Str("Alice"), Num(28), Bool(TRUE)>>,
       <<Str("Bob"), Num(35), Bool(TRUE)>>,
       <<Str("Charlie"), Num(23), Bool(FALSE)>> >>

\* Two columns carry the same name; a cell holds 0.
Duplicated ==
    << <<Str("name"), Str("age"), Str("name")>>,
       <<Str("Bob"), Num(0), Str("Zoe")>> >>

\* A header row and no data row.
HeaderOnly == << <<Str("name"), Str("age"), Str("is_active")>> >>

Sheets == {People, Duplicated, HeaderOnly}

WhereInputs ==
    { <<>>,
      << Criterion("name", Str("Bob")) >>,
      << OperatorMap("age", << Method("gte", Scalar(Num(28))) >>) >>,
      << Criterion("name", Str("Bob")), Criterion("nope", Num(1)) >>,
      << OperatorMap("age", << Method("bogus", Scalar(Num(1))) >>) >> }

DataInputs ==
    { ("name" :> Str("Zoe")) @@ ("age" :> Num(30)),
      ("name" :> Str("Zed")) @@ ("age" :> Num(0)),
      ("nope" :> Num(1)) @@ ("age" :> Num(30)),
      EmptyObject }

ColNamesInputs ==
    { <<>>, <<Str("name"), Str("age")>>, <<Str("nope")>> }

(***************************************************************************)
(* The manager: one action per public method.  `call` is the call just     *)
(* made and `ret` what it gave back: error = "" when it returned, else the *)
(* error it threw.                                                         *)
(***************************************************************************)
Call(op, options, data, colNames) ==
    [op |-> op, options |-> options, data |-> data, colNames |-> colNames]

Returned == [error |-> "", invalidCols |-> <<>>, value |-> <<>>]
Threw(error, invalidCols) == [error |-> error, invalidCols |-> invalidCols, value |-> <<>>]

\* constructor: RangeManager.from(sheetName)
Init ==
    /\ sheet \in Sheets
    /\ configs = NewConfigs(sheet)
    /\ ranges = <<>>
    /\ whereOptions = Null
    /\ call = Call("from", <<>>, EmptyObject, <<>>)
    /\ ret = Returned
    /\ calls = 0

\* where(options): whereOptions is assigned first; a throw leaves ranges.
whereCall(options) ==
    LET res == whereResult(sheet, configs, options)
    IN /\ whereOptions' = Options(options)
       /\ ranges' = IF res.error = "" THEN res.ranges ELSE ranges
       /\ ret' = IF res.error = "" THEN Returned ELSE Threw(res.error, res.invalidCols)
       /\ UNCHANGED <<sheet, configs>>

where ==
    /\ calls < MaxCalls
    /\ \E options \in WhereInputs :
         /\ whereCall(options)
         /\ call' = Call("where", options, EmptyObject, <<>>)
    /\ calls' = calls + 1

\* refresh() that returns without replaying the stored clause.
refreshWithoutReplay ==
    /\ calls < MaxCalls
    /\ ret' = Returned
    /\ UNCHANGED <<sheet, configs, ranges, whereOptions>>
    /\ call' = Call("refresh", <<>>, EmptyObject, <<>>)
    /\ calls' = calls + 1

\* refresh(): this.whereOptions && this.where(this.whereOptions)
refresh ==
    /\ calls < MaxCalls
    /\ IF whereOptions.set
       THEN whereCall(whereOptions.options)
       ELSE /\ ret' = Returned
            /\ UNCHANGED <<sheet, configs, ranges, whereOptions>>
    /\ call' = Call("refresh", <<>>, EmptyObject, <<>>)
    /\ calls' = calls + 1

clear ==
    /\ calls < MaxCalls
    /\ ranges' = <<>>
    /\ whereOptions' = Null
    /\ ret' = Returned
    /\ call' = Call("clear", <<>>, EmptyObject, <<>>)
    /\ calls' = calls + 1
    /\ UNCHANGED <<sheet, configs>>

fetch ==
    /\ calls < MaxCalls
    /\ \E colNames \in ColNamesInputs :
         LET res == fetchResult(sheet, configs, ranges, colNames)
         IN /\ ret' = [error |-> res.error, invalidCols |-> res.invalidCols,
                       value |-> res.value]
            /\ call' = Call("fetch", <<>>, EmptyObject, colNames)
    /\ calls' = calls + 1
    /\ UNCHANGED <<sheet, configs, ranges, whereOptions>>

\* The body of update(data).
updateCall(data) ==
    /\ sheet' = IF Len(ranges) > 0 THEN updateSheet(sheet, configs, ranges, data) ELSE sheet
    /\ ret' = Returned

\* The body of append(data).
appendCall(data) ==
    /\ sheet' = appendSheet(sheet, configs, data)
    /\ ret' = Returned

\* The body of prepend(data).
prependCall(data) ==
    LET res == prependResult(sheet, configs, data)
    IN /\ sheet' = res.sheet
       /\ ret' = IF res.error = "" THEN Returned ELSE Threw(res.error, <<>>)

update ==
    /\ calls < MaxCalls
    /\ \E data \in DataInputs :
         /\ updateCall(data)
         /\ call' = Call("update", <<>>, data, <<>>)
    /\ calls' = calls + 1
    /\ UNCHANGED <<configs, ranges, whereOptions>>

\* deleteRows() that also empties this.ranges.
deleteRowsDroppingRanges ==
    /\ calls < MaxCalls
    /\ sheet' = IF Len(ranges) > 0 THEN deleteRowsFrom(sheet, ranges, 0) ELSE sheet
    /\ ranges' = <<>>
    /\ ret' = Returned
    /\ call' = Call("deleteRows", <<>>, EmptyObject, <<>>)
    /\ calls' = calls + 1
    /\ UNCHANGED <<configs, whereOptions>>

deleteRows ==
    /\ calls < MaxCalls
    /\ sheet' = IF Len(ranges) > 0 THEN deleteRowsFrom(sheet, ranges, 0) ELSE sheet
    /\ ret' = Returned
    /\ call' = Call("deleteRows", <<>>, EmptyObject, <<>>)
    /\ calls' = calls + 1
    /\ UNCHANGED <<configs, ranges, whereOptions>>

append ==
    /\ calls < MaxCalls
    /\ getLastRow(sheet) < MaxRows
    /\ \E data \in DataInputs :
         /\ appendCall(data)
         /\ call' = Call("append", <<>>, data, <<>>)
    /\ calls' = calls + 1
    /\ UNCHANGED <<configs, ranges, whereOptions>>

prepend ==
    /\ calls < MaxCalls
    /\ getLastRow(sheet) < MaxRows
    /\ \E data \in DataInputs :
         /\ prependCall(data)
         /\ call' = Call("prepend", <<>>, data, <<>>)
    /\ calls' = calls + 1
    /\ UNCHANGED <<configs, ranges, whereOptions>>

\* this.ranges.length > 0 ? this.update(data) : this.prepend(data)
updateOrPrepend ==
    /\ calls < MaxCalls
    /\ getLastRow(sheet) < MaxRows
    /\ \E data \in DataInputs :
         /\ IF Len(ranges) > 0 THEN updateCall(data) ELSE prependCall(data)
         /\ call' = Call("updateOrPrepend", <<>>, data, <<>>)
    /\ calls' = calls + 1
    /\ UNCHANGED <<configs, ranges, whereOptions>>

\* this.ranges.length > 0 ? this.update(data) : this.append(data)
updateOrAppend ==
    /\ calls < MaxCalls
    /\ getLastRow(sheet) < MaxRows
    /\ \E data \in DataInputs :
         /\ IF Len(ranges) > 0 THEN updateCall(data) ELSE appendCall(data)
         /\ call' = Call("updateOrAppend", <<>>, data, <<>>)
    /\ calls' = calls + 1
    /\ UNCHANGED <<configs, ranges, whereOptions>>

Next ==
    \/ where
    \/ refresh
    \/ clear
    \/ fetch
    \/ update
    \/ deleteRows
    \/ append
    \/ prepend
    \/ updateOrPrepend
    \/ updateOrAppend

Spec == Init /\ [][Next]_vars

(***************************************************************************)
(* where() on its own: one call on a fresh manager, the clause drawn from  *)
(* every operator of the catalog, one or two columns, one or two operators *)
(* per column, over sheets of mixed cell types.                            *)
(***************************************************************************)
\* Strings that read as numbers, an empty cell above a populated row.
Mixed ==
    << <<Str("name"), Str("age"), Str("is_active")>>,
       <<Str("Bob"), Str("35"), Bool(FALSE)>>,
       <<Blank, Num(0), Blank>>,
       <<Str("Zoe"), Num(30), Num(1)>> >>

ScanSheets == {People, Duplicated, Mixed}

ScanColNames == {"name", "age", "is_active"}

ScanScalars == {Str("Bob"), Num(35), Str("35"), Num(0), Blank, Bool(TRUE)}

ScanMethods ==
    { Method("equal", Scalar(Num(35))), Method("equal", Scalar(Str("35"))),
      Method("deepEqual", Scalar(Num(35))), Method("deepEqual", Scalar(Str("35"))),
      Method("gt", Scalar(Num(28))), Method("gte", Scalar(Num(30))),
      Method("lt", Scalar(Num(30))), Method("lte", Scalar(Num(28))),
      Method("gt", Scalar(Str("Bob"))),
      Method("includes", Array(<<Num(28), Str("Bob"), Bool(TRUE)>>)),
      Method("excludes", Array(<<Num(28), Str("Bob"), Bool(TRUE)>>)),
      Method("between", Array(<<Num(23), Num(30)>>)),
      Method("between", Array(<<Num(30), Num(23)>>)),
      Method("match", Scalar(RegExp("^B"))),
      Method("matchAny", Array(<<RegExp("^3"), RegExp("e$")>>)) }

\* The operators combined two by two in one operator map.
PairedMethods ==
    { Method("gte", Scalar(Num(28))), Method("lte", Scalar(Num(30))),
      Method("excludes", Array(<<Num(28), Str("Bob"), Bool(TRUE)>>)),
      Method("match", Scalar(RegExp("e$"))) }

ScanEntries(colName) ==
    {Criterion(colName, v) : v \in ScanScalars}
      \cup {OperatorMap(colName, <<m>>) : m \in ScanMethods}
      \cup {OperatorMap(colName, <<p[1], p[2]>>) :
              p \in {q \in PairedMethods \X PairedMethods : q[1] # q[2]}}

\* The entries combined two by two in one clause.
PairedEntries(colName) ==
    {Criterion(colName, v) : v \in {Str("Bob"), Num(35)}}
      \cup {OperatorMap(colName, <<m>>) : m \in PairedMethods}
      \cup {OperatorMap(colName, <<Method("gte", Scalar(Num(28))), Method("lte", Scalar(Num(30)))>>)}

ScanInputs ==
    UNION {{<<e>> : e \in ScanEntries(c)} : c \in ScanColNames}
      \cup UNION {{<<e1, e2>> : e1 \in PairedEntries(c[1]), e2 \in PairedEntries(c[2])} :
                    c \in {d \in ScanColNames \X ScanColNames : d[1] # d[2]}}

\* between with every ordered pair of bounds, on every column.
BetweenBounds == {0, 23, 28, 30, 35}

BetweenClause(colName, b1, b2) ==
    << OperatorMap(colName, << Method("between", Array(<<Num(b1), Num(b2)>>)) >>) >>

BetweenInputs ==
    {BetweenClause(c, b[1], b[2]) : c \in ScanColNames, b \in BetweenBounds \X BetweenBounds}

\* Clauses with an operator name that is no key of `methods`: alone, after
\* a column no row satisfies, and after an operator no row satisfies.
UnknownOperatorInputs ==
    { << OperatorMap("age", << Method("bogus", Scalar(Num(1))) >>) >>,
      << Criterion("name", Str("Zed")),
         OperatorMap("age", << Method("bogus", Scalar(Num(1))) >>) >>,
      << OperatorMap("age", << Method("lt", Scalar(Str("Bob"))),
                               Method("bogus", Scalar(Num(1))) >>) >> }

InitScan ==
    /\ sheet \in ScanSheets
    /\ configs = NewConfigs(sheet)
    /\ ranges = <<>>
    /\ whereOptions = Null
    /\ call = Call("from", <<>>, EmptyObject, <<>>)
    /\ ret = Returned
    /\ calls = 0

whereScan ==
    /\ calls = 0
    /\ \E options \in ScanInputs \cup BetweenInputs \cup UnknownOperatorInputs \cup {<<>>} :
         /\ whereCall(options)
         /\ call' = Call("where", options, EmptyObject, <<>>)
    /\ calls' = calls + 1

SpecScan == InitScan /\ [][whereScan]_vars

(***************************************************************************)
(* The chain where(c).deleteRows().refresh() on a fresh manager, with no   *)
(* other call in between.                                                  *)
(***************************************************************************)
deleteRowsAfterWhere ==
    /\ calls = 1
    /\ call.op = "where"
    /\ ret.error = ""
    /\ deleteRows

refreshAfterDeleteRows ==
    /\ calls = 2
    /\ call.op = "deleteRows"
    /\ refresh

NextSequence ==
    \/ whereScan
    \/ deleteRowsAfterWhere
    \/ refreshAfterDeleteRows

SpecSequence == InitScan /\ [][NextSequence]_vars

(***************************************************************************)
(* serializeRow / deserializeRow on their own: the static methods applied  *)
(* to headers with distinct names, a record with a value for every header  *)
(* name, and a current row.                                                *)
(***************************************************************************)
CodecHeaders ==
    { <<Str("name"), Str("age")>>, <<Str("name"), Str("age"), Str("is_active")>> }

\* Strings, numbers and booleans, the falsy ones among them.
CodecValues == {Str("Zoe"), Blank, Num(30), Num(0), Bool(TRUE), Bool(FALSE)}

CodecCurrentRows ==
    { <<>>, <<Str("Alice"), Num(28), Bool(TRUE)>>, <<Blank, Blank, Blank>> }

\* deserializeRow(headers, {}, serializeRow(headers, data, currentValues))
roundTripOf(hdrs, data, currentValues) ==
    deserializeRow(hdrs, EmptyObject, serializeRow(hdrs, data, currentValues), <<>>).value

InitCodec ==
    /\ sheet = HeaderOnly
    /\ configs = NewConfigs(sheet)
    /\ ranges = <<>>
    /\ whereOptions = Null
    /\ call = Call("from", <<>>, EmptyObject, <<>>)
    /\ ret = Returned
    /\ calls = 0

roundTrip ==
    /\ calls = 0
    /\ \E hdrs \in CodecHeaders, currentValues \in CodecCurrentRows :
         \E data \in [{ToStr(hdrs[i]) : i \in DOMAIN hdrs} -> CodecValues] :
           /\ call' = [op |-> "roundTrip", hdrs |-> hdrs, data |-> data,
                       currentValues |-> currentValues]
           /\ ret' = [error |-> "", invalidCols |-> <<>>,
                      value |-> << roundTripOf(hdrs, data, currentValues) >>]
    /\ calls' = calls + 1
    /\ UNCHANGED <<sheet, configs, ranges, whereOptions>>

SpecCodec == InitCodec /\ [][roundTrip]_vars

(***************************************************************************)
(* Properties.                                                             *)
(***************************************************************************)
\* The row numbers this.ranges names, in order.
RangeRows(rngs) == [i \in DOMAIN rngs |-> RowOf(rngs[i])]

\* The data rows of a sheet: 2..lastRow.
DataRows(sh) == 2..getLastRow(sh)

\* The header cells of the sheet, as the properties read them.
HeaderRow(sh) == sh[1]

\* C1: after where({}) this.ranges names exactly the data rows 2..lastRow,
\* one descriptor each, in ascending order, and no other row.
C1_EmptyClauseSelectsDataRows ==
    (call.op = "where" /\ call.options = <<>> /\ ret.error = "")
      => RangeRows(ranges) = [i \in 1..(getLastRow(sheet) - 1) |-> i + 1]

\* The keys of a clause that name no header cell.
InvalidKeys(sh, options) ==
    {options[i].colName : i \in {j \in DOMAIN options :
                                   \A c \in DOMAIN HeaderRow(sh) :
                                     HeaderRow(sh)[c] # Str(options[j].colName)}}

\* C2: where() with a key that is no header name throws the invalid-column
\* error naming exactly the invalid keys, and leaves this.ranges and
\* this.whereOptions as they were before the call.
C2_InvalidKeyLeavesStateUnchanged ==
    [][(call'.op = "where" /\ InvalidKeys(sheet, call'.options) # {})
         => /\ ret'.error = "InvalidCol"
            /\ {ret'.invalidCols[i].s : i \in DOMAIN ret'.invalidCols}
                 = InvalidKeys(sheet, call'.options)
            /\ ranges' = ranges
            /\ whereOptions' = whereOptions]_vars

\* The (operator, operand) pairs of one clause entry; a scalar counts as
\* the single pair (equal, value).
PairsOf(entry) ==
    IF entry.isObject THEN Range(entry.methods)
    ELSE {Method("equal", Scalar(entry.value))}

\* The first column position whose header cell is colName.
FirstPosition(sh, colName) ==
    CHOOSE c \in DOMAIN HeaderRow(sh) :
      /\ HeaderRow(sh)[c] = Str(colName)
      /\ \A d \in 1..(c - 1) : HeaderRow(sh)[d] # Str(colName)

\* The full conjunction of a clause on one row.
RowSatisfies(sh, r, options) ==
    \A i \in DOMAIN options :
      \A pair \in PairsOf(options[i]) :
        methods(pair.name, getValue(sh, r, FirstPosition(sh, options[i].colName)),
                pair.value)

KnownOperators(options) ==
    \A i \in DOMAIN options : \A pair \in PairsOf(options[i]) : pair.name \in MethodNames

\* C3: for a clause whose keys are header names and whose operators are in
\* the catalog, where() returns, and a data row r in 2..lastRow is named by
\* this.ranges iff every (operator, operand) pair of every column holds for
\* the cell of r at the first column of that name.
C3_ScanIsConjunction ==
    (/\ call.op = "where"
     /\ InvalidKeys(sheet, call.options) = {}
     /\ KnownOperators(call.options))
      => /\ ret.error = ""
         /\ \A r \in DataRows(sheet) :
              (r \in Range(RangeRows(ranges))) <=> RowSatisfies(sheet, r, call.options)

\* A two-column clause, one column with two operators, that keeps some data
\* rows and drops others.
C3_Witness ==
    /\ call.op = "where"
    /\ Len(call.options) = 2
    /\ \E i \in DOMAIN call.options : Len(call.options[i].methods) = 2
    /\ \E r \in DataRows(sheet) : r \in Range(RangeRows(ranges))
    /\ \E r \in DataRows(sheet) : r \notin Range(RangeRows(ranges))

\* Every row number the sheet or this.ranges mentions before or after a call.
RowsInPlay(sh, sh2, rngs) ==
    1..Max({Len(sh), Len(sh2)} \cup Range(RangeRows(rngs)))

\* The cells of row r, over the header's width.
RowAt(sh, r) == [c \in DOMAIN HeaderRow(sh) |-> getValue(sh, r, c)]

\* C4: update(record) on a non-empty this.ranges: in every named row each
\* column whose name is a key of record holds the record's value and every
\* other column holds the value it held before, whatever it was; every row
\* not named (the header included) is unchanged.
C4_UpdateMergesRecord ==
    [][(call'.op = "update" /\ Len(ranges) > 0)
         => \A r \in RowsInPlay(sheet, sheet', ranges) :
              IF r \in Range(RangeRows(ranges))
              THEN \A c \in DOMAIN HeaderRow(sheet) :
                     getValue(sheet', r, c)
                       = IF ToStr(HeaderRow(sheet)[c]) \in DOMAIN call'.data
                         THEN call'.data[ToStr(HeaderRow(sheet)[c])]
                         ELSE getValue(sheet, r, c)
              ELSE RowAt(sheet', r) = RowAt(sheet, r)]_vars

\* The k-th smallest element of S.
RECURSIVE Kth(_, _)
Kth(S, k) == IF k = 1 THEN Min(S) ELSE Kth(S \ {Min(S)}, k - 1)

\* The row numbers of sh that rngs does not name, far enough down to have
\* Len(sh) + 1 of them.
Survivors(sh, rngs) ==
    (1..(Len(sh) + Len(rngs) + 1)) \ Range(RangeRows(rngs))

\* C5: deleteRows() right after a where() that returned: the sheet is the
\* sheet before the call with exactly the named rows removed, the other
\* rows keeping their content and order (the k-th row of the result is the
\* k-th row of the original that this.ranges does not name).
C5_DeleteRemovesNamedRows ==
    [][(call'.op = "deleteRows" /\ call.op = "where" /\ ret.error = "")
         => \A k \in 1..(Len(sheet) + 1) :
              RowAt(sheet', k) = RowAt(sheet, Kth(Survivors(sheet, ranges), k))]_vars

\* Two rows were named and deleted and a data row below them is left.
C5_Witness ==
    /\ call.op = "deleteRows"
    /\ calls = 2
    /\ Len(ranges) = 2
    /\ getLastRow(sheet) = 2
    /\ sheet[2] = People[4]

\* C6: updateOrAppend(record): with this.ranges empty the sheet gains the
\* row serializeRow(headers, record) at lastRow + 1 and no other row
\* changes; with this.ranges as a where() just left it, non-empty, only
\* existing rows are modified and the number of populated rows is the same
\* after the call as before.
C6_UpdateOrAppendAddsNoRowWhenFiltered ==
    [][(call'.op = "updateOrAppend")
         => IF Len(ranges) = 0
            THEN \A r \in RowsInPlay(sheet, sheet', ranges) \cup {getLastRow(sheet) + 1} :
                   RowAt(sheet', r)
                     = IF r = getLastRow(sheet) + 1
                       THEN serializeRow(HeaderRow(sheet), call'.data, <<>>)
                       ELSE RowAt(sheet, r)
            ELSE (call.op = "where" /\ ret.error = "")
                   => /\ getLastRow(sheet') = getLastRow(sheet)
                      /\ \A r \in RowsInPlay(sheet, sheet', ranges) :
                           r > getLastRow(sheet) => RowAt(sheet', r) = RowAt(sheet, r)]_vars

\* C7: for headers with distinct names, a record with a value for every
\* header name and any current row, deserializeRow(headers, {},
\* serializeRow(headers, record, currentRow)) is the record, whatever the
\* current row.
C7_RoundTripReproducesRecord ==
    (call.op = "roundTrip")
      => /\ ret.value[1] = call.data
         /\ \A currentValues \in CodecCurrentRows :
              roundTripOf(call.hdrs, call.data, currentValues) = ret.value[1]

\* The names fetch(colNames) is asked for: all header names when colNames
\* is empty.
RequestedNames(sh, colNames) ==
    IF colNames = <<>> THEN {HeaderRow(sh)[c].s : c \in DOMAIN HeaderRow(sh)}
    ELSE {colNames[i].s : i \in DOMAIN colNames}

\* C8: fetch(colNames) with every requested name in the header returns one
\* record per descriptor of this.ranges, in order; the record of row r has
\* exactly the requested names as keys and maps each to the cell of r at
\* that name's column (the first position of the name); the sheet,
\* this.ranges and this.whereOptions are unchanged.
C8_FetchReadsNamedCells ==
    [][(call'.op = "fetch" /\ RequestedNames(sheet, call'.colNames) \subseteq
                                {HeaderRow(sheet)[c].s : c \in DOMAIN HeaderRow(sheet)})
         => /\ ret'.error = ""
            /\ DOMAIN ret'.value = DOMAIN ranges
            /\ \A i \in DOMAIN ranges :
                 /\ DOMAIN ret'.value[i] = RequestedNames(sheet, call'.colNames)
                 /\ \A name \in RequestedNames(sheet, call'.colNames) :
                      ret'.value[i][name]
                        = getValue(sheet, RowOf(ranges[i]), FirstPosition(sheet, name))
            /\ UNCHANGED <<sheet, ranges, whereOptions>>]_vars

\* C9: with this.ranges empty, fetch(colNames) returns the empty list and
\* throws nothing, whatever colNames is.
C9_FetchOnEmptyRanges ==
    [][(call'.op = "fetch" /\ Len(ranges) = 0)
         => /\ ret'.error = ""
            /\ ret'.value = <<>>]_vars

\* fetch of a name that is no header, after a where() that matched nothing.
C9_Witness ==
    /\ call.op = "fetch"
    /\ call.colNames = <<Str("nope")>>
    /\ whereOptions.set
    /\ Len(ranges) = 0
    /\ ret.error = ""

\* C10: append(record): lastRow is one greater than before, the row at the
\* old lastRow + 1 is serializeRow(headers, record, []) (the record's value
\* under each header name it supplies, blank elsewhere), and every row that
\* existed, this.ranges and this.whereOptions are unchanged.
C10_AppendAddsSerializedRow ==
    [][(call'.op = "append")
         => /\ getLastRow(sheet') = getLastRow(sheet) + 1
            /\ RowAt(sheet', getLastRow(sheet) + 1)
                 = serializeRow(HeaderRow(sheet), call'.data, <<>>)
            /\ \A c \in DOMAIN HeaderRow(sheet) :
                 getValue(sheet', getLastRow(sheet) + 1, c)
                   = IF HeaderRow(sheet)[c].s \in DOMAIN call'.data
                     THEN call'.data[HeaderRow(sheet)[c].s]
                     ELSE Blank
            /\ \A r \in 1..getLastRow(sheet) : RowAt(sheet', r) = RowAt(sheet, r)
            /\ ranges' = ranges
            /\ whereOptions' = whereOptions]_vars

\* C11: prepend(record), on a sheet with a header row and zero or more data
\* rows, returns; after it row 2 is serializeRow(headers, record), every
\* former data row r is found unchanged at r + 1, the header row is
\* unchanged and lastRow is one greater than before.
C11_PrependShiftsDataRows ==
    [][(call'.op = "prepend")
         => /\ ret'.error = ""
            /\ RowAt(sheet', 2) = serializeRow(HeaderRow(sheet), call'.data, <<>>)
            /\ \A r \in DataRows(sheet) : RowAt(sheet', r + 1) = RowAt(sheet, r)
            /\ HeaderRow(sheet') = HeaderRow(sheet)
            /\ getLastRow(sheet') = getLastRow(sheet) + 1]_vars

\* C12: refresh(): with no where-clause stored, this.ranges,
\* this.whereOptions and the sheet are unchanged; with a clause c stored,
\* this.ranges after it is what where(c) leaves on the current sheet (the
\* scan's result, or this.ranges as it was when where(c) throws), the call
\* returns or throws as where(c) does, and c is still stored.
C12_RefreshReplaysStoredClause ==
    [][(call'.op = "refresh")
         => IF whereOptions.set
            THEN LET res == whereResult(sheet, configs, whereOptions.options)
                 IN /\ ranges' = IF res.error = "" THEN res.ranges ELSE ranges
                    /\ ret'.error = res.error
                    /\ whereOptions' = whereOptions
                    /\ sheet' = sheet
            ELSE /\ ret'.error = ""
                 /\ UNCHANGED <<sheet, ranges, whereOptions>>]_vars

\* where({name: 'Bob'}), deleteRows(), refresh(): the stale descriptor of
\* row 3 is gone after the refresh.
C12_Witness ==
    /\ call.op = "refresh"
    /\ calls = 3
    /\ whereOptions = Options(<< Criterion("name", Str("Bob")) >>)
    /\ sheet = << People[1], People[2], People[4] >>
    /\ ranges = <<>>

\* The keys of a record that are no header name.
UnknownKeys(sh, data) ==
    {k \in DOMAIN data : \A c \in DOMAIN HeaderRow(sh) : HeaderRow(sh)[c] # Str(k)}

\* C13: update(record) on a non-empty this.ranges, where record has a key
\* that is no header name, throws the invalid-column error naming exactly
\* those keys, and no cell of the sheet is written.
C13_UpdateRejectsUnknownKeys ==
    [][(/\ call'.op = "update"
        /\ Len(ranges) > 0
        /\ UnknownKeys(sheet, call'.data) # {})
         => /\ ret'.error = "InvalidCol"
            /\ {ret'.invalidCols[i].s : i \in DOMAIN ret'.invalidCols}
                 = UnknownKeys(sheet, call'.data)
            /\ sheet' = sheet]_vars

\* C14: after every call the manager is Unfiltered (this.ranges empty and
\* no where-clause stored) or Filtered (a where-clause is stored and
\* this.ranges is what the scan of that stored clause produced at the last
\* where/refresh call: after a where or refresh the scan of the stored
\* clause returned and this.ranges is its result, and every other call but
\* clear leaves both as they were); clear() leads to Unfiltered.
C14_UnfilteredOrFiltered ==
    [][/\ (~whereOptions'.set) => (ranges' = <<>>)
       /\ (call'.op \in {"where", "refresh"} /\ whereOptions'.set)
            => LET res == whereResult(sheet', configs', whereOptions'.options)
               IN res.error = "" /\ ranges' = res.ranges
       /\ (call'.op \notin {"where", "refresh", "clear"})
            => (ranges' = ranges /\ whereOptions' = whereOptions)
       /\ (call'.op = "clear") => (ranges' = <<>> /\ ~whereOptions'.set)]_vars

\* The clause {col: {between: [b1, b2]}} of a where() call, if it is one.
IsBetweenClause(options) ==
    /\ Len(options) = 1
    /\ options[1].isObject
    /\ Len(options[1].methods) = 1
    /\ options[1].methods[1].name = "between"
    /\ Len(options[1].methods[1].value.arr) = 2

\* C15: where({col: {between: [b1, b2]}}) with numbers b1, b2 and col a
\* header name returns; this.ranges is what where({col: {between: [b2, b1]}})
\* gives on the same sheet, and it names a data row r in 2..lastRow iff the
\* cell of r in col, taken as a number, is one and lies between the smaller
\* and the larger of b1, b2, both included.
C15_BetweenIsSymmetric ==
    (/\ call.op = "where"
     /\ IsBetweenClause(call.options)
     /\ InvalidKeys(sheet, call.options) = {})
      => LET col == call.options[1].colName
             b1 == call.options[1].methods[1].value.arr[1].n
             b2 == call.options[1].methods[1].value.arr[2].n
             lo == IF b1 <= b2 THEN b1 ELSE b2
             hi == IF b1 <= b2 THEN b2 ELSE b1
             swapped == whereResult(sheet, configs, BetweenClause(col, b2, b1))
         IN /\ ret.error = ""
            /\ swapped.error = ""
            /\ ranges = swapped.ranges
            /\ \A r \in DataRows(sheet) :
                 (r \in Range(RangeRows(ranges)))
                   <=> LET cell == ToNumber(getValue(sheet, r, FirstPosition(sheet, col)))
                       IN cell.t = "num" /\ lo <= cell.n /\ cell.n <= hi

\* The larger bound is given first; one data row is kept and one dropped.
C15_Witness ==
    /\ call.op = "where"
    /\ IsBetweenClause(call.options)
    /\ call.options[1].methods[1].value.arr[1].n > call.options[1].methods[1].value.arr[2].n
    /\ \E r \in DataRows(sheet) : r \in Range(RangeRows(ranges))
    /\ \E r \in DataRows(sheet) : r \notin Range(RangeRows(ranges))

\* C16: where(clause) whose keys are header names and in which some column's
\* operator map has a name that is no key of `methods` throws, whatever the
\* sheet holds and whatever else the clause holds (an earlier column that
\* no row satisfies included), and this.ranges is not replaced.
C16_UnknownOperatorAlwaysThrows ==
    [][(/\ call'.op = "where"
        /\ InvalidKeys(sheet, call'.options) = {}
        /\ ~KnownOperators(call'.options))
         => (ret'.error # "" /\ ranges' = ranges)]_vars

\* C17: in every reachable state this.ranges is a sequence of descriptors
\* whose row numbers are strictly ascending and at least 2 (the first data
\* row), each with column 1, numRows 1 and numColumns the sheet's width.
C17_RangesAscendingFullWidth ==
    /\ \A i \in DOMAIN ranges :
         /\ ranges[i][1] >= 2
         /\ ranges[i][2] = 1
         /\ ranges[i][3] = 1
         /\ ranges[i][4] = getLastColumn(sheet)
    /\ \A i, j \in DOMAIN ranges : (i < j) => (ranges[i][1] < ranges[j][1])

\* Two descriptors are held, and calls that change the sheet were made
\* after the where() that produced them.
C17_Witness ==
    /\ Len(ranges) >= 2
    /\ call.op \in {"deleteRows", "prepend", "update"}
    /\ ret.error = ""

\* C18: update, deleteRows, append, prepend, updateOrAppend and
\* updateOrPrepend leave this.ranges and this.whereOptions as they were,
\* also when they change the sheet's row numbering; a call that changes
\* either of them is a where, refresh or clear.
C18_MutationsKeepRangesAndClause ==
    [][/\ (call'.op \in {"update", "deleteRows", "append", "prepend",
                         "updateOrAppend", "updateOrPrepend"})
            => (ranges' = ranges /\ whereOptions' = whereOptions)
       /\ (ranges' # ranges \/ whereOptions' # whereOptions)
            => (call'.op \in {"where", "refresh", "clear"})]_vars

\* where({name: 'Bob'}) then deleteRows(): Bob's row is gone and
\* this.ranges still names row 3, which now holds Charlie.
C18_Witness ==
    /\ call.op = "deleteRows"
    /\ whereOptions = Options(<< Criterion("name", Str("Bob")) >>)
    /\ ranges = << RangeNotation(3, 3) >>
    /\ sheet = << People[1], People[2], People[4] >>

\* C19: no call deletes or overwrites the header row: across every call
\* (where, refresh, clear, fetch, update, deleteRows, append, prepend,
\* updateOrAppend, updateOrPrepend, on a stale this.ranges included) row 1
\* exists and holds the values it held before the call, hence the values
\* it held when the manager was constructed.
C19_HeaderRowNeverChanges ==
    [][Len(sheet') >= 1 /\ HeaderRow(sheet') = HeaderRow(sheet)]_vars

\* where({}) then deleteRows() twice: the second call deletes rows by the
\* stale descriptors of the first; only the header row is left.
C19_Witness ==
    /\ call.op = "deleteRows"
    /\ calls = 3
    /\ ranges = << RangeNotation(2, 3), RangeNotation(3, 3),
                   RangeNotation(4, 3), RangeNotation(5, 3) >>
    /\ sheet = << People[1] >>

\* C20: where(c) that returned, then deleteRows(), then refresh(), with no
\* other call in between: this.ranges is empty at the end.
C20_DeleteThenRefreshSelectsNothing ==
    (calls = 3 /\ call.op = "refresh") => (ranges = <<>>)

=============================================================================
